---- MODULE Spec2Model ----
(***************************************************************************)
(* Flask-LogConfig (src/flask_logconfig/__init__.py): the queued,          *)
(* request-context propagating logging pipeline.                           *)
(*                                                                         *)
(* Objects of the program (queues, queue handlers, listeners, listener     *)
(* threads) live in sequences and are named by their index. A logger's     *)
(* handler list holds references to destination handlers (the handlers the *)
(* logging configuration attached) and to queue handlers.                  *)
(*                                                                         *)
(* The logconfig / logging library calls the source makes are modelled by  *)
(* what they do: queuify_logger moves a logger's handlers to the listener  *)
(* and leaves the queue handler alone on the logger; QueueListener.start   *)
(* spawns a thread running _monitor (blocking get, stop at the sentinel,   *)
(* handle otherwise); QueueListener.stop enqueues the sentinel and joins   *)
(* the listener's thread; QueueHandler.emit hands any exception of         *)
(* prepare/enqueue to handleError. Loggers are flat (no propagation) and   *)
(* every record passes every level filter.                                 *)
(*                                                                         *)
(* Four next-state relations share the actions: Spec (the queues at work), *)
(* SpecCtx (request contexts on records), SpecLife (init_app,              *)
(* start_listeners and stop_listeners called in any order; SpecLifeFair    *)
(* adds fair scheduling of the threads) and SpecReq (the request hooks and *)
(* the message they log).                                                  *)
(***************************************************************************)
EXTENDS Integers, Sequences, FiniteSets, TLC

VARIABLES
    config,          \* app.config: LOGCONFIG, LOGCONFIG_QUEUE, and init_app's start_listeners
    pc,              \* position of the application's main thread
    queues,          \* queue objects: contents, oldest first
    qhs,             \* FlaskQueueHandler objects: [queue], and the logger each was made for
    lsns,            \* QueueListener objects: [queue, handlers, thread]
    threads,         \* listener threads: [listener, state, held]
    registry,        \* app.extensions['logconfig']['listeners'], in insertion order
    loggerHandlers,  \* logging.getLogger(name).handlers
    emitted,         \* per destination handler, the ids of the records it emitted
    logged,          \* history: the records passed to logger.log, in order
    errors,          \* number of records handed to Handler.handleError
    stopIdx,         \* stop_listeners: index into the registry of the listener being stopped
    stack,           \* the request thread's _request_ctx_stack
    reqs,            \* the requests served so far: [url, cookie, session, active]
    flask,           \* the behaviour of the installed flask: [copySession, preserve]
    lastCall,        \* history: the request_context_from_record block the last step ran, if any
    steps,           \* history: what init_app and start_listeners did since the last init_app began
    hooks,           \* how often before_request / after_request are registered on the app
    calls,           \* number of further init_app / start_listeners / stop_listeners calls made
    g,               \* flask.g.logconfig of the request being served
    clock,           \* datetime.datetime.now(), in milliseconds
    serving,         \* the request flask is dispatching and how far it got
    requestLog,      \* history: the records after_request logged
    timeCalls        \* history: the get_execution_time calls of the request being served

webVars == <<g, clock, serving, requestLog, timeCalls>>

vars == <<config, pc, queues, qhs, lsns, threads, registry, loggerHandlers,
          emitted, logged, errors, stopIdx, stack, reqs, flask, lastCall,
          steps, hooks, calls, webVars>>

(***************************************************************************)
(* Bounds.                                                                 *)
(***************************************************************************)
MaxRecords == 2

MaxQueueNames == 2

MaxRequests == 1

MaxCalls == 2

MaxClock == 2

MaxTimeCalls == 2

Names == {"a", "b"}

DestIds == {1, 2}

Urls == {"/foo", "/bar"}

SessionValues == {"s0", "s1"}

(***************************************************************************)
(* Helpers on sequences.                                                   *)
(***************************************************************************)
Range(s) == {s[i] : i \in DOMAIN s}

SeqsUpTo(S, n) == UNION {[1..k -> S] : k \in 0..n}

(***************************************************************************)
(* Handler references, request contexts, log records.                      *)
(***************************************************************************)
Dest(d) == [kind |-> "dest", id |-> d]

QH(k) == [kind |-> "queue", id |-> k]

\* The handler objects a sequence of configured handler ids stands for.
DestRefs(ids) == [i \in DOMAIN ids |-> Dest(ids[i])]

\* A flask RequestContext: the request object it refers to, and its session
\* attribute: "none" (not opened), "live" (the session object of the request
\* being served) or "cookie" (a session object opened afresh from the
\* request's cookie).
NoCtx == [req |-> 0, sess |-> "none", preserved |-> FALSE]

\* QueueListener._sentinel (None in the library)
Sentinel == [id |-> 0, name |-> "", hasctx |-> FALSE, ctx |-> NoCtx]

NoRecord == [id |-> 0 - 1, name |-> "", hasctx |-> FALSE, ctx |-> NoCtx]

\* flask.g without a logconfig attribute; with one, `start` is set, and
\* `memo` says whether the key 'execution_time' is in it.
NoG == [set |-> FALSE, start |-> 0, memo |-> FALSE, execution_time |-> 0]

\* No request is being dispatched.
NotServing == [phase |-> "idle", req |-> 0, environ |-> <<>>, status |-> 0,
               returned |-> 0]

\* lastCall when the last step ran no block.
NoCall == [branch |-> "none", thread |-> "", rec |-> 0, hasctx |-> FALSE,
           recctx |-> NoCtx, ended |-> FALSE, ran |-> FALSE, raised |-> FALSE,
           yielded |-> NoCtx, url |-> "", session |-> "",
           before |-> <<>>, inside |-> <<>>, after |-> <<>>]

(***************************************************************************)
(* init_app: the logging configuration, then the queues.                   *)
(* A world w is the part of the state init_app works on:                   *)
(* [queues, qhs, lsns, threads, registry, loggerHandlers, steps, hooks].   *)
(***************************************************************************)

\* An entry of the history of steps: what was done, and for which logger.
Step(op, name) == [op |-> op, name |-> name]

\* setup_logging: logconfig.from_autodetect(app.config['LOGCONFIG']) attaches
\* the configured handlers to each configured logger.
SetupLogging(w, cfg) ==
    [w EXCEPT !.loggerHandlers = [n \in Names |-> DestRefs(cfg.handlers[n])],
              !.steps = Append(@, Step("setup_logging", ""))]

\* queuify_logger without the emptying of the logger's handler list.
QueuifyLoggerKeeping(w, name, k, l) ==
    LET held == Range(w.lsns[l].handlers)
        fresh == SelectSeq(w.loggerHandlers[name], LAMBDA h : h \notin held)
    IN [w EXCEPT !.lsns[l].handlers = @ \o fresh,
                 !.loggerHandlers[name] = Append(@, QH(k))]

\* logconfig.queuify_logger(name, handler, listener): the logger's handlers
\* the listener does not hold yet are added to the listener; the logger's
\* handler list is emptied and the queue handler added to it.
QueuifyLogger(w, name, k, l) ==
    LET held == Range(w.lsns[l].handlers)
        fresh == SelectSeq(w.loggerHandlers[name], LAMBDA h : h \notin held)
    IN [w EXCEPT !.lsns[l].handlers = @ \o fresh,
                 !.loggerHandlers[name] = <<QH(k)>>]

\* add_listener: self.get_listeners(app)[name] = listener. A dict keeps the
\* place of a key that is assigned again.
AddListener(reg, name, l) ==
    IF \E i \in DOMAIN reg : reg[i].name = name
    THEN [i \in DOMAIN reg |->
            IF reg[i].name = name THEN [name |-> name, listener |-> l] ELSE reg[i]]
    ELSE Append(reg, [name |-> name, listener |-> l])

\* The queue the listener and the handler of logger `name` are built on:
\* setup_queue creates one queue (line 144) before its loop and hands it to
\* every listener_class(queue) and handler_class(queue).
QueueFor(w, q, name) == q

\* The loop of setup_queue over app.config['LOGCONFIG_QUEUE'].
RECURSIVE SetupQueueLoop(_, _, _)
SetupQueueLoop(w, names, q) ==
    IF names = <<>> THEN w
    ELSE LET name == Head(names)
             l == Len(w.lsns) + 1
             k == Len(w.qhs) + 1
             w1 == [w EXCEPT
                      !.lsns = Append(@, [queue |-> QueueFor(w, q, name),
                                          handlers |-> <<>>, thread |-> 0]),
                      !.qhs = Append(@, [queue |-> QueueFor(w, q, name), name |-> name])]
             w2 == [QueuifyLogger(w1, name, k, l) EXCEPT
                      !.steps = Append(@, Step("queuify_logger", name))]
             w3 == [w2 EXCEPT !.registry = AddListener(@, name, l),
                              !.steps = Append(@, Step("add_listener", name))]
         IN SetupQueueLoop(w3, Tail(names), q)

\* QueueListener.start: a new thread running _monitor becomes the listener's
\* thread.
StartListener(w, l) ==
    [w EXCEPT !.threads = Append(@, [listener |-> l, state |-> "get", held |-> NoRecord,
                                           stack |-> <<>>]),
              !.lsns[l].thread = Len(w.threads) + 1,
              !.steps = Append(@, Step("start", w.qhs[l].name))]

\* start_listeners: every listener of the registry is started.
RECURSIVE StartFrom(_, _)
StartFrom(w, i) ==
    IF i > Len(w.registry) THEN w
    ELSE StartFrom(StartListener(w, w.registry[i].listener), i + 1)

StartListeners(w) == StartFrom(w, 1)

\* setup_queue
SetupQueue(w, cfg) ==
    LET q == Len(w.queues) + 1
        w1 == [w EXCEPT !.queues = Append(@, <<>>)]
        w2 == SetupQueueLoop(w1, cfg.queue, q)
    IN IF cfg.start THEN StartListeners(w2) ELSE w2

\* The hooks registered whatever LOGCONFIG_REQUESTS_ENABLED says.
InstallHooksAlways(w, cfg) ==
    [w EXCEPT !.hooks = @ + 1, !.steps = Append(@, Step("hooks", ""))]

\* The registration of the request hooks (lines 123-125): app.before_request
\* and app.after_request append to the app's lists of hooks.
InstallHooks(w, cfg) ==
    IF cfg.requests.enabled
    THEN [w EXCEPT !.hooks = @ + 1, !.steps = Append(@, Step("hooks", ""))]
    ELSE w

\* init_app, lines 97-125, with the queues installed before the logging
\* configuration is loaded.
InitAppWorldQueueFirst(w, cfg) ==
    LET w0 == [w EXCEPT !.registry = <<>>, !.steps = <<>>]
        w1 == IF cfg.queue # <<>> THEN SetupQueue(w0, cfg) ELSE w0
        w2 == IF cfg.logconfig THEN SetupLogging(w1, cfg) ELSE w1
    IN InstallHooks(w2, cfg)

\* init_app, lines 97-125.
InitAppWorld(w, cfg) ==
    LET w0 == [w EXCEPT !.registry = <<>>, !.steps = <<>>]
        w1 == IF cfg.logconfig THEN SetupLogging(w0, cfg) ELSE w0
        w2 == IF cfg.queue # <<>> THEN SetupQueue(w1, cfg) ELSE w1
    IN InstallHooks(w2, cfg)

World == [queues |-> queues, qhs |-> qhs, lsns |-> lsns, threads |-> threads,
          registry |-> registry, loggerHandlers |-> loggerHandlers,
          steps |-> steps, hooks |-> hooks]

InitApp ==
    /\ pc = "new"
    /\ LET w == InitAppWorld(World, config)
       IN /\ queues' = w.queues
          /\ qhs' = w.qhs
          /\ lsns' = w.lsns
          /\ threads' = w.threads
          /\ registry' = w.registry
          /\ loggerHandlers' = w.loggerHandlers
          /\ steps' = w.steps
          /\ hooks' = w.hooks
    /\ pc' = "running"
    /\ lastCall' = NoCall
    /\ UNCHANGED <<config, calls, webVars, emitted, logged, errors, stopIdx, stack, reqs, flask>>

(***************************************************************************)
(* Request contexts (flask.ctx.RequestContext as the source uses it).      *)
(***************************************************************************)
Top(stk) == IF stk = <<>> THEN NoCtx ELSE stk[Len(stk)]

Pop(stk) == SubSeq(stk, 1, Len(stk) - 1)

\* has_request_context()
HasRequestContext(stk) == stk # <<>>

\* RequestContext.copy(): a new context on the same request object. flask
\* from 1.1 on hands the current session object to the copy; before, the copy
\* has no session until it is pushed.
CtxCopy(ctx, fl) ==
    [req |-> ctx.req,
     sess |-> IF fl.copySession THEN ctx.sess ELSE "none",
     preserved |-> FALSE]

\* RequestContext.push(): a preserved context on top is popped first; the
\* session is opened from the request's cookie (flask before 1.1: always;
\* from 1.1 on: when the context has none).
CtxPush(stk, ctx, fl) ==
    LET base == IF stk # <<>> /\ Top(stk).preserved THEN Pop(stk) ELSE stk
        opened == [ctx EXCEPT !.sess = IF fl.copySession /\ ctx.sess # "none"
                                        THEN ctx.sess ELSE "cookie"]
    IN Append(base, opened)

\* An exit of the with block that leaves the context on the stack.
CtxExitKeeping(stk, raised, fl) == stk

\* RequestContext.__exit__ -> auto_pop(exc): the context stays on the stack
\* when an exception leaves the block and the application preserves contexts
\* on exceptions (PRESERVE_CONTEXT_ON_EXCEPTION, by default app.debug).
CtxExit(stk, raised, fl) ==
    IF raised /\ fl.preserve
    THEN [stk EXCEPT ![Len(stk)].preserved = TRUE]
    ELSE Pop(stk)

\* What flask.request.url and flask.session resolve to under a stack.
AmbientUrl(stk, rq) == rq[Top(stk).req].url

AmbientSession(stk, rq) ==
    IF Top(stk).sess = "live" THEN rq[Top(stk).req].session
    ELSE rq[Top(stk).req].cookie

\* copy_current_request_context(): RuntimeError without a request context.
CopyCurrentRequestContext(stk, fl) ==
    IF stk = <<>>
    THEN [raised |-> TRUE, ctx |-> NoCtx]
    ELSE [raised |-> FALSE, ctx |-> CtxCopy(Top(stk), fl)]

\* FlaskQueueHandler.prepare
Prepare(rec, stk, fl) ==
    LET c == CopyCurrentRequestContext(stk, fl)
    IN [raised |-> c.raised,
        record |-> IF c.raised THEN rec
                   ELSE [rec EXCEPT !.hasctx = TRUE, !.ctx = c.ctx]]

\* The branches tried in the other order: the ambient context first.
ResolveBranchAmbientFirst(rec, stk) ==
    IF HasRequestContext(stk) THEN "ambient"
    ELSE IF rec.hasctx THEN "record"
    ELSE "error"

\* The branch request_context_from_record takes.
ResolveBranch(rec, stk) ==
    IF rec.hasctx THEN "record"
    ELSE IF HasRequestContext(stk) THEN "ambient"
    ELSE "error"

\* request_context_from_record(record) around a body that reads the ambient
\* request and then returns or raises: the branch, the context yielded, the
\* stack while the body runs and after the block is left, what the body saw.
RequestContextFromRecord(rec, stk, bodyRaises, fl, rq, who) ==
    LET branch == ResolveBranch(rec, stk)
        inside == IF branch = "record" THEN CtxPush(stk, rec.ctx, fl) ELSE stk
        after == IF branch = "record" THEN CtxExit(inside, bodyRaises, fl) ELSE stk
    IN [branch |-> branch,
        thread |-> who,
        rec |-> rec.id,
        hasctx |-> rec.hasctx,
        recctx |-> rec.ctx,
        ended |-> rec.hasctx /\ ~rq[rec.ctx.req].active,
        ran |-> branch # "error",
        raised |-> branch = "error" \/ bodyRaises,
        yielded |-> IF branch = "error" THEN NoCtx ELSE Top(inside),
        url |-> IF branch = "error" THEN "" ELSE AmbientUrl(inside, rq),
        session |-> IF branch = "error" THEN "" ELSE AmbientSession(inside, rq),
        before |-> stk,
        inside |-> inside,
        after |-> after]

(***************************************************************************)
(* Handlers at work.                                                       *)
(* A handling state st is what a pass over a handler list changes:         *)
(* [queues, emitted, errors, stk, who, lastCall], stk being the stack of   *)
(* the thread that runs the handlers and who its kind.                     *)
(***************************************************************************)

\* QueueHandler.emit: enqueue(prepare(record)); an exception goes to
\* handleError and the record is not enqueued.
QueueHandlerEmit(st, k, rec) ==
    LET p == Prepare(rec, st.stk, flask)
    IN IF p.raised
       THEN [st EXCEPT !.errors = @ + 1]
       ELSE [st EXCEPT !.queues[qhs[k].queue] = Append(@, p.record)]

\* A destination handler's emit. With config.format its formatter reads the
\* request inside request_context_from_record(record) (the UrlFormatter of
\* the tests); an exception of the formatter goes to handleError.
DestHandlerEmit(st, d, rec, bodyRaises) ==
    IF config.format
    THEN LET c == RequestContextFromRecord(rec, st.stk, bodyRaises, flask, reqs, st.who)
         IN IF c.raised
            THEN [st EXCEPT !.errors = @ + 1, !.stk = c.after, !.lastCall = c]
            ELSE [st EXCEPT !.emitted[d] = Append(@, rec.id), !.stk = c.after,
                            !.lastCall = c]
    ELSE [st EXCEPT !.emitted[d] = Append(@, rec.id)]

\* Logger.callHandlers / QueueListener.handle: every handler of the list
\* handles the record, in order.
RECURSIVE CallHandlers(_, _, _, _)
CallHandlers(st, hs, rec, bodyRaises) ==
    IF hs = <<>> THEN st
    ELSE LET h == Head(hs)
             st1 == IF h.kind = "queue"
                    THEN QueueHandlerEmit(st, h.id, rec)
                    ELSE DestHandlerEmit(st, h.id, rec, bodyRaises)
         IN CallHandlers(st1, Tail(hs), rec, bodyRaises)

Handling(stk, who) == [queues |-> queues, emitted |-> emitted, errors |-> errors,
                       stk |-> stk, who |-> who, lastCall |-> NoCall]

(***************************************************************************)
(* The request thread.                                                     *)
(***************************************************************************)

\* flask serves a request: its context is pushed, its session opened from
\* the request's cookie.
BeginRequest(u, c) ==
    /\ pc = "running"
    /\ stack = <<>>
    /\ Len(reqs) < MaxRequests
    /\ reqs' = Append(reqs, [url |-> u, cookie |-> c, session |-> c, active |-> TRUE])
    /\ stack' = <<[req |-> Len(reqs) + 1, sess |-> "live", preserved |-> FALSE]>>
    /\ lastCall' = NoCall
    /\ UNCHANGED <<config, steps, hooks, calls, webVars, pc, queues, qhs, lsns, threads, registry, loggerHandlers,
                   emitted, logged, errors, stopIdx, flask>>

\* The view writes to flask.session.
SetSession(v) ==
    /\ stack # <<>>
    /\ Top(stack).sess = "live"
    /\ reqs[Top(stack).req].session # v
    /\ reqs' = [reqs EXCEPT ![Top(stack).req].session = v]
    /\ lastCall' = NoCall
    /\ UNCHANGED <<config, steps, hooks, calls, webVars, pc, queues, qhs, lsns, threads, registry, loggerHandlers,
                   emitted, logged, errors, stopIdx, stack, flask>>

\* The request ends: flask pops its context (the only one on the stack).
EndRequest ==
    /\ Len(stack) = 1
    /\ reqs' = [reqs EXCEPT ![Top(stack).req].active = FALSE]
    /\ stack' = Pop(stack)
    /\ lastCall' = NoCall
    /\ UNCHANGED <<config, steps, hooks, calls, webVars, pc, queues, qhs, lsns, threads, registry, loggerHandlers,
                   emitted, logged, errors, stopIdx, flask>>

\* logging.getLogger(name).log(...) on the request thread.
LogRecord(name) ==
    /\ pc = "running"
    /\ Len(logged) < MaxRecords
    /\ LET rec == [id |-> Len(logged) + 1, name |-> name, hasctx |-> FALSE, ctx |-> NoCtx]
           st == CallHandlers(Handling(stack, "request"), loggerHandlers[name], rec, FALSE)
       IN /\ queues' = st.queues
          /\ emitted' = st.emitted
          /\ errors' = st.errors
          /\ stack' = st.stk
          /\ lastCall' = st.lastCall
          /\ logged' = Append(logged,
                 [id |-> rec.id, name |-> name, inreq |-> stack # <<>>,
                  req |-> Top(stack).req,
                  url |-> IF stack = <<>> THEN "" ELSE AmbientUrl(stack, reqs),
                  session |-> IF stack = <<>> THEN "" ELSE AmbientSession(stack, reqs)])
    /\ UNCHANGED <<config, steps, hooks, calls, webVars, pc, qhs, lsns, threads, registry, loggerHandlers,
                   stopIdx, reqs, flask>>

\* The record of logged[i] as FlaskQueueHandler.prepare left it.
PreparedRecord(i) ==
    [id |-> i, name |-> logged[i].name, hasctx |-> TRUE,
     ctx |-> CtxCopy([req |-> logged[i].req, sess |-> "live", preserved |-> FALSE], flask)]

\* Code on the request thread runs a block
\*     with request_context_from_record(record): ...
\* on no record (None, {}) or on a record the queue handler prepared.
CallDirect(rec, bodyRaises) ==
    /\ pc = "running"
    /\ LET c == RequestContextFromRecord(rec, stack, bodyRaises, flask, reqs, "request")
       IN /\ lastCall' = c
          /\ stack' = c.after
    /\ UNCHANGED <<config, steps, hooks, calls, webVars, pc, queues, qhs, lsns, threads, registry, loggerHandlers,
                   emitted, logged, errors, stopIdx, reqs, flask>>

(***************************************************************************)
(* A listener thread: QueueListener._monitor.                              *)
(***************************************************************************)

\* record = self.dequeue(True); the sentinel ends the thread.
Dequeue(t) ==
    /\ threads[t].state = "get"
    /\ LET q == lsns[threads[t].listener].queue
       IN /\ queues[q] # <<>>
          /\ queues' = [queues EXCEPT ![q] = Tail(@)]
          /\ threads' = IF Head(queues[q]) = Sentinel
                        THEN [threads EXCEPT ![t].state = "done"]
                        ELSE [threads EXCEPT ![t].state = "handle",
                                             ![t].held = Head(queues[q])]
    /\ lastCall' = NoCall
    /\ UNCHANGED <<config, steps, hooks, calls, webVars, pc, qhs, lsns, registry, loggerHandlers, emitted, logged,
                   errors, stopIdx, stack, reqs, flask>>

\* self.handle(record): the listener's handlers handle the record.
Handle(t, bodyRaises) ==
    /\ threads[t].state = "handle"
    /\ bodyRaises => config.format
    /\ LET st == CallHandlers(Handling(threads[t].stack, "listener"),
                              lsns[threads[t].listener].handlers,
                              threads[t].held, bodyRaises)
       IN /\ queues' = st.queues
          /\ emitted' = st.emitted
          /\ errors' = st.errors
          /\ lastCall' = st.lastCall
          /\ threads' = [threads EXCEPT ![t].state = "get", ![t].held = NoRecord,
                                        ![t].stack = st.stk]
    /\ UNCHANGED <<config, steps, hooks, calls, webVars, pc, qhs, lsns, registry, loggerHandlers, logged,
                   stopIdx, stack, reqs, flask>>

(***************************************************************************)
(* stop_listeners: for each listener of the registry, listener.stop(),     *)
(* which enqueues the sentinel, joins the listener's thread and forgets    *)
(* it. A listener without a thread makes stop raise (None has no join).    *)
(***************************************************************************)
StopListeners ==
    /\ pc = "running"
    /\ stopIdx' = 1
    /\ pc' = IF registry = <<>> THEN "stopped" ELSE "stop_enqueue"
    /\ lastCall' = NoCall
    /\ UNCHANGED <<config, steps, hooks, calls, webVars, queues, qhs, lsns, threads, registry, loggerHandlers,
                   emitted, logged, errors, stack, reqs, flask>>

StopEnqueue ==
    /\ pc = "stop_enqueue"
    /\ LET l == registry[stopIdx].listener
       IN /\ queues' = [queues EXCEPT ![lsns[l].queue] = Append(@, Sentinel)]
          /\ pc' = IF lsns[l].thread = 0 THEN "stop_raised" ELSE "stop_join"
    /\ lastCall' = NoCall
    /\ UNCHANGED <<config, steps, hooks, calls, webVars, qhs, lsns, threads, registry, loggerHandlers,
                   emitted, logged, errors, stopIdx, stack, reqs, flask>>

StopJoin ==
    /\ pc = "stop_join"
    /\ LET l == registry[stopIdx].listener
       IN /\ threads[lsns[l].thread].state = "done"
          /\ lsns' = [lsns EXCEPT ![l].thread = 0]
    /\ stopIdx' = stopIdx + 1
    /\ pc' = IF stopIdx = Len(registry) THEN "stopped" ELSE "stop_enqueue"
    /\ lastCall' = NoCall
    /\ UNCHANGED <<config, steps, hooks, calls, webVars, queues, qhs, threads, registry, loggerHandlers,
                   emitted, logged, errors, stack, reqs, flask>>

(***************************************************************************)
(* Request logging: the hooks and the message they log.                    *)
(* Values of the message data are strings, integers or None; a mapping is  *)
(* a function from its keys to values.                                     *)
(***************************************************************************)
StrVal(x) == [kind |-> "str", s |-> x, n |-> 0]

IntVal(x) == [kind |-> "int", s |-> "", n |-> x]

NoneVal == [kind |-> "none", s |-> "", n |-> 0]

\* The session mapping (a defaultdict over dict(session)); x is its content.
SessionVal(x) == [kind |-> "session", s |-> x, n |-> 0]

\* str.format's rendering of a value.
FormatValue(v) ==
    CASE v.kind = "str" -> v.s
      [] v.kind = "int" -> ToString(v.n)
      [] v.kind = "none" -> "None"
      [] v.kind = "session" -> "{" \o v.s \o "}"

\* dict.update: the keys of e are added to d, replacing equal keys.
Update(d, e) ==
    [k \in DOMAIN d \cup DOMAIN e |-> IF k \in DOMAIN e THEN e[k] ELSE d[k]]

\* The name of app.logger.
AppLogger == "b"

\* milliseconds_between(start, stop) on datetimes given in milliseconds: the
\* timedelta's days, seconds and microseconds, put together as line 311 does.
MillisecondsBetween(start, stop) ==
    LET diff == stop - start
        days == diff \div 86400000
        seconds == (diff % 86400000) \div 1000
        microseconds == (diff % 1000) * 1000
    IN (days * 24 * 60 * 60 + seconds) * 1000 + microseconds \div 1000

\* get_execution_time computing the time anew on every call.
GetExecutionTimeRecompute(gv, now) ==
    IF gv.set
    THEN LET t == MillisecondsBetween(gv.start, now)
         IN [g |-> [gv EXCEPT !.memo = TRUE, !.execution_time = t], result |-> IntVal(t)]
    ELSE [g |-> gv, result |-> NoneVal]

\* get_execution_time: None without a start time; otherwise the time is
\* computed and stored in flask.g.logconfig unless it is stored already, and
\* the stored time returned.
GetExecutionTime(gv, now) ==
    IF gv.set
    THEN LET g1 == IF gv.memo THEN gv
                   ELSE [gv EXCEPT !.memo = TRUE,
                                   !.execution_time = MillisecondsBetween(gv.start, now)]
         IN [g |-> g1, result |-> IntVal(g1.execution_time)]
    ELSE [g |-> gv, result |-> NoneVal]

\* request.method and request.path, which werkzeug reads from the environ.
RequestMethod(environ) == environ["REQUEST_METHOD"].s

RequestPath(environ) == environ["PATH_INFO"].s

\* The layers of get_request_message_data: the request's attributes, the
\* response's attributes, the session.
RequestLayer(environ) ==
    [k \in {"method", "path"} |->
        IF k = "method" THEN StrVal(RequestMethod(environ)) ELSE StrVal(RequestPath(environ))]

ResponseLayer(status, time) ==
    [k \in {"status_code", "execution_time"} |->
        IF k = "status_code" THEN IntVal(status) ELSE time]

SessionLayer(sess) == [k \in {"session"} |-> SessionVal(sess)]

\* get_request_message_data with the environ put in last.
GetRequestMessageDataEnvironLast(environ, status, time, sess) ==
    Update(Update(Update(RequestLayer(environ), ResponseLayer(status, time)),
                  SessionLayer(sess)),
           environ)

\* get_request_message_data: the WSGI environ, updated with the request's
\* attributes, then the response's, then the session.
GetRequestMessageData(environ, status, time, sess) ==
    Update(Update(Update(environ, RequestLayer(environ)), ResponseLayer(status, time)),
           SessionLayer(sess))

\* make_request_message: template.format(**data).
RECURSIVE MakeRequestMessage(_, _)
MakeRequestMessage(template, data) ==
    IF template = <<>> THEN ""
    ELSE LET part == Head(template)
             text == IF part.field = "" THEN part.text ELSE FormatValue(data[part.field])
         IN text \o MakeRequestMessage(Tail(template), data)

\* get_requests_logger
GetRequestsLogger(cfg) ==
    IF cfg.requests.logger # "" THEN cfg.requests.logger ELSE AppLogger

\* The WSGI environ of a request: method and path, and the keys in extra
\* that a middleware added.
Environ(m, p, extra) ==
    Update([k \in {"REQUEST_METHOD", "PATH_INFO"} |->
               IF k = "REQUEST_METHOD" THEN StrVal(m) ELSE StrVal(p)],
           extra)

\* flask receives a request: its context is pushed; flask.g is new.
ReceiveRequest(m, p, extra, c) ==
    /\ pc = "running"
    /\ serving.phase = "idle"
    /\ stack = <<>>
    /\ Len(reqs) < MaxRequests
    /\ reqs' = Append(reqs, [url |-> p, cookie |-> c, session |-> c, active |-> TRUE,
                             method |-> m, status |-> 0])
    /\ stack' = <<[req |-> Len(reqs) + 1, sess |-> "live", preserved |-> FALSE]>>
    /\ serving' = [phase |-> "before", req |-> Len(reqs) + 1,
                   environ |-> Environ(m, p, extra), status |-> 0, returned |-> 0]
    /\ g' = NoG
    /\ timeCalls' = <<>>
    /\ UNCHANGED <<config, steps, hooks, calls, clock, requestLog, pc, queues, qhs, lsns,
                   threads, registry, loggerHandlers, emitted, logged, errors, stopIdx,
                   flask, lastCall>>

\* flask runs the before_request functions: before_request (if registered)
\* stores the start time in flask.g.logconfig.
BeforeRequest ==
    /\ serving.phase = "before"
    /\ serving' = [serving EXCEPT !.phase = "view"]
    /\ g' = IF hooks > 0
            THEN [set |-> TRUE, start |-> clock, memo |-> FALSE, execution_time |-> 0]
            ELSE g
    /\ UNCHANGED <<config, steps, hooks, calls, clock, requestLog, timeCalls, pc, queues,
                   qhs, lsns, threads, registry, loggerHandlers, emitted, logged, errors,
                   stopIdx, stack, reqs, flask, lastCall>>

\* Time passes between the two hooks of a request.
Tick ==
    /\ serving.phase \in {"view", "responded"}
    /\ clock < MaxClock
    /\ clock' = clock + 1
    /\ UNCHANGED <<config, steps, hooks, calls, g, serving, requestLog, timeCalls, pc,
                   queues, qhs, lsns, threads, registry, loggerHandlers, emitted, logged,
                   errors, stopIdx, stack, reqs, flask, lastCall>>

\* One get_execution_time call, entered in the history of the calls.
TimedCall(gv, calls0, now) ==
    LET r == GetExecutionTime(gv, now)
    IN [g |-> r.g, result |-> r.result,
        timeCalls |-> Append(calls0, [at |-> now, before |-> gv, after |-> r.g,
                                      result |-> r.result])]

\* Code serving the request (a hook, the view) calls get_execution_time.
CallGetExecutionTime ==
    /\ serving.phase # "idle"
    /\ Len(timeCalls) < MaxTimeCalls
    /\ LET r == TimedCall(g, timeCalls, clock)
       IN /\ g' = r.g
          /\ timeCalls' = r.timeCalls
    /\ UNCHANGED <<config, steps, hooks, calls, clock, serving, requestLog, pc, queues,
                   qhs, lsns, threads, registry, loggerHandlers, emitted, logged, errors,
                   stopIdx, stack, reqs, flask, lastCall>>

\* The view (or flask's error handling) produces the response.
Respond(status) ==
    /\ serving.phase = "view"
    /\ serving' = [serving EXCEPT !.phase = "responded", !.status = status]
    /\ reqs' = [reqs EXCEPT ![serving.req].status = status]
    /\ UNCHANGED <<config, steps, hooks, calls, g, clock, requestLog, timeCalls, pc, queues,
                   qhs, lsns, threads, registry, loggerHandlers, emitted, logged, errors,
                   stopIdx, stack, flask, lastCall>>

\* after_request(response) on a hook state st:
\* [g, timeCalls, requestLog, logged, handling, response].
AfterRequestHook(st) ==
    LET logger == GetRequestsLogger(config)
        t == TimedCall(st.g, st.timeCalls, clock)
        data == GetRequestMessageData(serving.environ, st.response, t.result,
                                      AmbientSession(stack, reqs))
        msg == MakeRequestMessage(config.requests.template, data)
        rec == [id |-> Len(st.logged) + 1, name |-> logger, hasctx |-> FALSE, ctx |-> NoCtx]
    IN [g |-> t.g,
        timeCalls |-> t.timeCalls,
        requestLog |-> Append(st.requestLog,
            [id |-> rec.id, req |-> serving.req, logger |-> logger,
             level |-> config.requests.level, msg |-> msg,
             execution_time |-> data["execution_time"], phase |-> serving.phase]),
        logged |-> Append(st.logged,
            [id |-> rec.id, name |-> logger, inreq |-> stack # <<>>, req |-> Top(stack).req,
             url |-> AmbientUrl(stack, reqs), session |-> AmbientSession(stack, reqs)]),
        handling |-> CallHandlers(st.handling, loggerHandlers[logger], rec, FALSE),
        response |-> st.response]

\* Every registered after_request function runs on the response.
RECURSIVE RunAfterRequest(_, _)
RunAfterRequest(st, n) ==
    IF n = 0 THEN st ELSE RunAfterRequest(AfterRequestHook(st), n - 1)

\* flask runs the after_request functions on the response.
AfterRequest ==
    /\ serving.phase = "responded"
    /\ LET st == RunAfterRequest([g |-> g, timeCalls |-> timeCalls,
                                  requestLog |-> requestLog, logged |-> logged,
                                  handling |-> Handling(stack, "request"),
                                  response |-> serving.status], hooks)
       IN /\ g' = st.g
          /\ timeCalls' = st.timeCalls
          /\ requestLog' = st.requestLog
          /\ logged' = st.logged
          /\ queues' = st.handling.queues
          /\ emitted' = st.handling.emitted
          /\ errors' = st.handling.errors
          /\ serving' = [serving EXCEPT !.phase = "finalized", !.returned = st.response]
    /\ UNCHANGED <<config, steps, hooks, calls, clock, pc, qhs, lsns, threads, registry,
                   loggerHandlers, stopIdx, stack, reqs, flask, lastCall>>

\* The response is sent; flask pops the request's context and its flask.g.
FinishRequest ==
    /\ serving.phase = "finalized"
    /\ reqs' = [reqs EXCEPT ![serving.req].active = FALSE]
    /\ stack' = Pop(stack)
    /\ serving' = NotServing
    /\ g' = NoG
    /\ UNCHANGED <<config, steps, hooks, calls, clock, requestLog, timeCalls, pc, queues,
                   qhs, lsns, threads, registry, loggerHandlers, emitted, logged, errors,
                   stopIdx, flask, lastCall>>

(***************************************************************************)
(* Further calls of the extension's methods by the application.            *)
(***************************************************************************)

\* init_app on an application that is initialized already.
InitAppAgain ==
    /\ pc = "running"
    /\ calls < MaxCalls
    /\ calls' = calls + 1
    /\ LET w == InitAppWorld(World, config)
       IN /\ queues' = w.queues
          /\ qhs' = w.qhs
          /\ lsns' = w.lsns
          /\ threads' = w.threads
          /\ registry' = w.registry
          /\ loggerHandlers' = w.loggerHandlers
          /\ steps' = w.steps
          /\ hooks' = w.hooks
    /\ lastCall' = NoCall
    /\ UNCHANGED <<config, pc, webVars, emitted, logged, errors, stopIdx, stack, reqs, flask>>

\* An explicit start_listeners(app).
StartListenersCall ==
    /\ pc = "running"
    /\ calls < MaxCalls
    /\ calls' = calls + 1
    /\ LET w == StartListeners(World)
       IN /\ lsns' = w.lsns
          /\ threads' = w.threads
          /\ steps' = w.steps
    /\ lastCall' = NoCall
    /\ UNCHANGED <<config, pc, hooks, webVars, queues, qhs, registry, loggerHandlers,
                   emitted, logged, errors, stopIdx, stack, reqs, flask>>

\* stop_listeners has returned or raised; the application goes on and may
\* call the extension again.
Resume ==
    /\ pc \in {"stopped", "stop_raised"}
    /\ calls < MaxCalls
    /\ calls' = calls + 1
    /\ pc' = "running"
    /\ lastCall' = NoCall
    /\ UNCHANGED <<config, steps, hooks, webVars, queues, qhs, lsns, threads, registry,
                   loggerHandlers, emitted, logged, errors, stopIdx, stack, reqs, flask>>

(***************************************************************************)
(* Specifications.                                                         *)
(***************************************************************************)

\* The requests of a run: the k-th asks for /foo or /bar in turn (successive
\* requests differ in their URL) and brings the session cookie s0.
RequestUrl(k) == IF k % 2 = 1 THEN "/foo" ELSE "/bar"

RequestCookie(k) == "s0"

\* The loggers LOGCONFIG_QUEUE names.
QueuedNames == Range(config.queue)

\* The handlers the configuration attaches to the loggers: each logger its
\* own, one handler shared, two handlers shared.
HandlerMaps ==
    {[n \in Names |-> IF n = "a" THEN <<1>> ELSE <<2>>],
     [n \in Names |-> <<1>>],
     [n \in Names |-> <<1, 2>>]}

\* The default template of LOGCONFIG_REQUESTS_MSG_FORMAT (line 92),
\* '{method} {path} - {status_code}', as fields and literal text.
DefaultTemplate ==
    <<[field |-> "method", text |-> ""], [field |-> "", text |-> " "],
      [field |-> "path", text |-> ""], [field |-> "", text |-> " - "],
      [field |-> "status_code", text |-> ""]>>

\* The defaults of the LOGCONFIG_REQUESTS_* keys (lines 88-92); logger ""
\* stands for None.
DefaultRequests ==
    [enabled |-> FALSE, logger |-> "", level |-> "DEBUG", template |-> DefaultTemplate]

\* LOGCONFIG unset (no logger has handlers) or a dictionary attaching
\* handlers to the loggers.
Configs ==
    {[queue |-> q, handlers |-> hm, start |-> s, logconfig |-> TRUE, format |-> FALSE,
      requests |-> DefaultRequests] :
        q \in SeqsUpTo(Names, MaxQueueNames), hm \in HandlerMaps, s \in BOOLEAN}
    \cup
    {[queue |-> q, handlers |-> [n \in Names |-> <<>>], start |-> s,
      logconfig |-> FALSE, format |-> FALSE, requests |-> DefaultRequests] :
        q \in SeqsUpTo(Names, MaxQueueNames), s \in BOOLEAN}

InitState ==
    /\ pc = "new"
    /\ queues = <<>>
    /\ qhs = <<>>
    /\ lsns = <<>>
    /\ threads = <<>>
    /\ registry = <<>>
    /\ loggerHandlers = [n \in Names |-> <<>>]
    /\ emitted = [d \in DestIds |-> <<>>]
    /\ logged = <<>>
    /\ errors = 0
    /\ stopIdx = 0
    /\ stack = <<>>
    /\ reqs = <<>>
    /\ lastCall = NoCall
    /\ steps = <<>>
    /\ hooks = 0
    /\ calls = 0
    /\ g = NoG
    /\ clock = 0
    /\ serving = NotServing
    /\ requestLog = <<>>
    /\ timeCalls = <<>>

Init ==
    /\ config \in Configs
    /\ flask = [copySession |-> FALSE, preserve |-> FALSE]
    /\ InitState

Next ==
    \/ InitApp
    \/ \E u \in Urls, c \in SessionValues :
          /\ u = RequestUrl(Len(reqs) + 1)
          /\ c = RequestCookie(Len(reqs) + 1)
          /\ BeginRequest(u, c)
    \/ EndRequest
    \/ \E n \in Names : LogRecord(n)
    \/ \E t \in DOMAIN threads : Dequeue(t)
    \/ \E t \in DOMAIN threads : Handle(t, FALSE)
    \/ StopListeners
    \/ StopEnqueue
    \/ StopJoin

Spec == Init /\ [][Next]_vars

\* The request-context specification: one queued logger "a" whose handler
\* formats inside request_context_from_record, a logger "b" that is not
\* queued, and either behaviour of flask.
CtxConfigs ==
    {[queue |-> <<"a">>, handlers |-> [n \in Names |-> IF n = "a" THEN <<1>> ELSE <<2>>],
      start |-> TRUE, logconfig |-> TRUE, format |-> TRUE, requests |-> DefaultRequests]}

InitCtx ==
    /\ config \in CtxConfigs
    /\ flask \in [copySession : BOOLEAN, preserve : BOOLEAN]
    /\ InitState

NextCtx ==
    \/ InitApp
    \/ \E u \in Urls, c \in SessionValues :
          /\ u = RequestUrl(Len(reqs) + 1)
          /\ c = RequestCookie(Len(reqs) + 1)
          /\ BeginRequest(u, c)
    \/ \E v \in SessionValues : SetSession(v)
    \/ EndRequest
    \/ \E n \in QueuedNames : LogRecord(n)
    \/ \E b \in BOOLEAN : CallDirect(NoRecord, b)
    \/ \E i \in DOMAIN logged, b \in BOOLEAN : logged[i].inreq /\ CallDirect(PreparedRecord(i), b)
    \/ \E t \in DOMAIN threads : Dequeue(t)
    \/ \E t \in DOMAIN threads, b \in BOOLEAN : Handle(t, b)

SpecCtx == InitCtx /\ [][NextCtx]_vars

\* The lifecycle specification: init_app, then any start_listeners,
\* stop_listeners and init_app calls, with the listener threads running.
LifeConfigs ==
    {[queue |-> q, handlers |-> [n \in Names |-> IF n = "a" THEN <<1>> ELSE <<2>>],
      start |-> s, logconfig |-> lc, format |-> FALSE,
      requests |-> [DefaultRequests EXCEPT !.enabled = en]] :
        q \in SeqsUpTo(Names, MaxQueueNames), s \in BOOLEAN, lc \in BOOLEAN,
        en \in BOOLEAN}

InitLife ==
    /\ config \in LifeConfigs
    /\ flask = [copySession |-> FALSE, preserve |-> FALSE]
    /\ InitState

NextLife ==
    \/ InitApp
    \/ InitAppAgain
    \/ StartListenersCall
    \/ \E t \in DOMAIN threads : Dequeue(t)
    \/ StopListeners
    \/ StopEnqueue
    \/ StopJoin
    \/ Resume

SpecLife == InitLife /\ [][NextLife]_vars

\* The threads there can be: every init_app and start_listeners call starts
\* at most one per queued name.
ThreadIds == 1..(MaxQueueNames * (MaxCalls + 1))

\* The lifecycle with its threads scheduled fairly: a listener thread that
\* can take a record from its queue does, and the thread in stop_listeners
\* goes on whenever it can.
SpecLifeFair ==
    /\ SpecLife
    /\ WF_vars(StopEnqueue)
    /\ WF_vars(StopJoin)
    /\ \A t \in ThreadIds : WF_vars(t \in DOMAIN threads /\ Dequeue(t))

\* The request-logging specification: no queued logger, the request hooks
\* enabled or not, requests served one after the other.
Methods == {"GET", "POST"}

Statuses == {200, 404}

Levels == {"DEBUG", "ERROR"}

\* What a middleware may have put into the environ: nothing, or keys that
\* are also names of the message data.
ExtraEnvirons ==
    {[k \in {} |-> NoneVal],
     [k \in {"method", "status_code"} |->
         IF k = "method" THEN StrVal("TRACE") ELSE IntVal(0)]}

ReqConfigs ==
    {[queue |-> <<>>, handlers |-> [n \in Names |-> IF n = "a" THEN <<1>> ELSE <<2>>],
      start |-> TRUE, logconfig |-> TRUE, format |-> FALSE,
      requests |-> [enabled |-> en, logger |-> lg, level |-> lv,
                    template |-> DefaultTemplate]] :
        en \in BOOLEAN, lg \in {"", "a"}, lv \in Levels}

InitReq ==
    /\ config \in ReqConfigs
    /\ flask = [copySession |-> FALSE, preserve |-> FALSE]
    /\ InitState

NextReq ==
    \/ InitApp
    \/ \E m \in Methods, p \in Urls, extra \in ExtraEnvirons, c \in SessionValues :
          /\ p = RequestUrl(Len(reqs) + 1)
          /\ c = RequestCookie(Len(reqs) + 1)
          /\ ReceiveRequest(m, p, extra, c)
    \/ BeforeRequest
    \/ Tick
    \/ CallGetExecutionTime
    \/ \E status \in Statuses : Respond(status)
    \/ AfterRequest
    \/ FinishRequest

SpecReq == InitReq /\ [][NextReq]_vars

(***************************************************************************)
(* Properties of the queues.                                               *)
(***************************************************************************)
Initialized == pc # "new"

\* LOGCONFIG_QUEUE names no logger twice.
DistinctNames == Cardinality(QueuedNames) = Len(config.queue)

IsRegistered(n) == \E i \in DOMAIN registry : registry[i].name = n

ListenerOf(n) == (CHOOSE i \in DOMAIN registry : registry[i].name = n)

\* The ids of the records of logger n among a handler's emissions, in order.
EmittedOf(d, n) == SelectSeq(emitted[d], LAMBDA i : logged[i].name = n)

Count(seq, x) == Cardinality({j \in DOMAIN seq : seq[j] = x})

\* C1: after init_app, queues, queue handlers and listeners correspond
\* 1:1:1: no two queue handlers put to the same queue, no two listeners get
\* from the same queue, and every queue has one handler and one listener.
C1_OneQueuePerName ==
    (Initialized /\ DistinctNames) =>
        /\ \A k1, k2 \in DOMAIN qhs : k1 # k2 => qhs[k1].queue # qhs[k2].queue
        /\ \A l1, l2 \in DOMAIN lsns : l1 # l2 => lsns[l1].queue # lsns[l2].queue
        /\ \A q \in DOMAIN queues :
              /\ Cardinality({k \in DOMAIN qhs : qhs[k].queue = q}) = 1
              /\ Cardinality({l \in DOMAIN lsns : lsns[l].queue = q}) = 1

AllStarted == \A i \in DOMAIN registry : lsns[registry[i].listener].thread # 0

\* C2: with two or more queued loggers and their listeners started, a
\* record of queued logger L is emitted only to L's configured handlers, at
\* most once to each, and once stop_listeners has returned exactly once to
\* each.
C2_RoutedToOwnHandlers ==
    (Initialized /\ DistinctNames /\ Len(config.queue) >= 2 /\ config.start) =>
        /\ \A d \in DestIds : \A j \in DOMAIN emitted[d] :
              /\ d \in Range(config.handlers[logged[emitted[d][j]].name])
              /\ Count(emitted[d], emitted[d][j]) = 1
        /\ pc = "stopped" =>
              \A i \in DOMAIN logged :
                  (logged[i].inreq /\ logged[i].name \in QueuedNames) =>
                      \A d \in Range(config.handlers[logged[i].name]) :
                          Count(emitted[d], i) = 1

\* C3: when stop_listeners has returned, every record that was logged to a
\* queued logger with a started listener has been emitted to each of that
\* logger's destination handlers.
C3_DrainedOnStop ==
    (pc = "stopped" /\ DistinctNames /\ config.start) =>
        \A i \in DOMAIN logged :
            (logged[i].inreq /\ logged[i].name \in QueuedNames) =>
                \A d \in Range(config.handlers[logged[i].name]) :
                    i \in Range(emitted[d])

\* C8: after init_app the registry has as many entries as LOGCONFIG_QUEUE
\* has names, and the listener registered under a name holds exactly the
\* destination handlers configured for that logger.
C8_RegistryMatchesConfig ==
    Initialized =>
        /\ Len(registry) = Len(config.queue)
        /\ \A i \in DOMAIN registry :
              lsns[registry[i].listener].handlers
                  = DestRefs(config.handlers[registry[i].name])

\* C9: once queueing is installed for a logger, its handler list is exactly
\* one queue handler, one that was created for it; no destination handler
\* stays on the logger, and logging to it emits nothing on the logging
\* thread.
C9_OnlyQueueHandler ==
    /\ [](Initialized =>
            \A n \in QueuedNames :
                /\ Len(loggerHandlers[n]) = 1
                /\ loggerHandlers[n][1].kind = "queue"
                /\ loggerHandlers[n][1].id \in DOMAIN qhs
                /\ qhs[loggerHandlers[n][1].id].name = n)
    /\ [][\A n \in QueuedNames : LogRecord(n) => emitted' = emitted]_vars

C9_Witness ==
    /\ pc = "running"
    /\ config.queue = <<"a", "b">>
    /\ config.handlers["a"] = <<1, 2>>
    /\ loggerHandlers["a"] = <<QH(1)>>
    /\ \E i \in DOMAIN logged : logged[i].name = "a" /\ logged[i].inreq

\* C10: the records one thread logs to one queued logger are emitted to each
\* destination handler in the order they were logged.
C10_EmittedInOrder ==
    DistinctNames => \A d \in DestIds : \A n \in QueuedNames :
        \A j1, j2 \in DOMAIN EmittedOf(d, n) :
            j1 < j2 => EmittedOf(d, n)[j1] < EmittedOf(d, n)[j2]

(***************************************************************************)
(* Properties of the request contexts (under SpecCtx).                     *)
(***************************************************************************)
Last(seq) == seq[Len(seq)]

\* The queue the queue handler of queued logger n puts to.
QueueOfLogger(n) == qhs[loggerHandlers[n][1].id].queue

\* C4: a record logged to a queued logger is enqueued by the log call, with
\* an attached request context when one is active on the logging thread and
\* without one (and without an error) when none is.
C4_EnqueuedWithOrWithoutContext ==
    [][\A n \in QueuedNames :
          LogRecord(n) =>
              /\ Len(queues'[QueueOfLogger(n)]) = Len(queues[QueueOfLogger(n)]) + 1
              /\ Last(queues'[QueueOfLogger(n)]).id = Len(logged) + 1
              /\ Last(queues'[QueueOfLogger(n)]).hasctx = (stack # <<>>)
              /\ errors' = errors]_vars

\* C5: a block run on the listener thread, with no ambient context, on the
\* record of a request that has ended sees the URL and the session the
\* request had when the record was logged.
C5_RoundTrip ==
    (/\ lastCall.branch = "record"
     /\ lastCall.thread = "listener"
     /\ lastCall.before = <<>>
     /\ lastCall.ended) =>
        /\ lastCall.url = logged[lastCall.rec].url
        /\ lastCall.session = logged[lastCall.rec].session

\* C6: the resolution order. A record with an attached context: that context
\* is activated and yielded, whatever the ambient stack. Otherwise, with an
\* ambient context: the top of the stack is yielded and nothing is pushed.
\* Otherwise the block raises on entry and its body does not run.
C6_ResolutionOrder ==
    lastCall.branch # "none" =>
        /\ lastCall.hasctx =>
              /\ lastCall.branch = "record"
              /\ lastCall.ran
              /\ lastCall.yielded.req = lastCall.recctx.req
              /\ lastCall.inside # <<>>
              /\ Top(lastCall.inside) = lastCall.yielded
        /\ (~lastCall.hasctx /\ lastCall.before # <<>>) =>
              /\ lastCall.branch = "ambient"
              /\ lastCall.ran
              /\ lastCall.yielded = Top(lastCall.before)
              /\ lastCall.inside = lastCall.before
        /\ (~lastCall.hasctx /\ lastCall.before = <<>>) =>
              /\ lastCall.branch = "error"
              /\ lastCall.raised
              /\ ~lastCall.ran

\* An attached context wins over an active ambient context of another
\* request state.
C6_Witness ==
    /\ lastCall.hasctx
    /\ lastCall.before # <<>>
    /\ lastCall.branch = "record"
    /\ Len(lastCall.inside) = Len(lastCall.before) + 1

Registered == {registry[i].listener : i \in DOMAIN registry}

\* The consumer threads of listener l that are running.
LiveThreads(l) == {t \in DOMAIN threads : threads[t].listener = l /\ threads[t].state # "done"}

\* C11: whatever start_listeners calls were made (the one of init_app,
\* explicit ones), a registered listener has at most one consumer thread.
C11_AtMostOneThread ==
    \A l \in Registered : Cardinality(LiveThreads(l)) <= 1

\* C12: stop_listeners never raises, neither with listeners that were never
\* started nor when called again after the listeners were stopped.
C12_StopNeverRaises ==
    pc # "stop_raised"

\* C14: init_app never installs queueing for a LOGCONFIG_QUEUE that names
\* a logger twice: such a configuration is rejected, nothing is registered
\* and no listener or queue handler is made.
C14_DuplicatesRejected ==
    ~DistinctNames =>
        /\ pc = "new"
        /\ registry = <<>>
        /\ lsns = <<>>
        /\ qhs = <<>>

\* The places in the history of steps where one of ops was done.
StepsOf(ops) == {i \in DOMAIN steps : steps[i].op \in ops}

\* The loggers the steps `op` were done for, in order.
NamesOf(op) ==
    LET sel == SelectSeq(steps, LAMBDA st : st.op = op)
    IN [i \in DOMAIN sel |-> sel[i].name]

\* C17: the order of init_app's steps. The logging configuration is loaded
\* (once, when LOGCONFIG is set) before any logger is rebound, any listener
\* registered or started; every queued logger is rebound and then
\* registered, in the order of LOGCONFIG_QUEUE, before any listener is
\* started; the request hooks are registered after all of that.
C17_InitOrder ==
    Initialized =>
        /\ Cardinality(StepsOf({"setup_logging"})) = (IF config.logconfig THEN 1 ELSE 0)
        /\ \A i \in StepsOf({"setup_logging"}) :
              \A j \in StepsOf({"queuify_logger", "add_listener", "start", "hooks"}) : i < j
        /\ NamesOf("queuify_logger") = config.queue
        /\ NamesOf("add_listener") = config.queue
        /\ \A i \in StepsOf({"queuify_logger"}) :
              /\ i + 1 \in StepsOf({"add_listener"})
              /\ steps[i + 1].name = steps[i].name
        /\ \A i \in StepsOf({"queuify_logger", "add_listener"}) :
              \A j \in StepsOf({"start"}) : i < j
        /\ Cardinality(StepsOf({"hooks"})) = (IF config.requests.enabled THEN 1 ELSE 0)
        /\ \A i \in StepsOf({"queuify_logger", "add_listener"}) :
              \A j \in StepsOf({"hooks"}) : i < j
        /\ (calls = 0 /\ config.requests.enabled) => steps[Len(steps)].op = "hooks"

\* init_app did every kind of step: configuration, two loggers, their
\* listeners started, the hooks.
C17_Witness ==
    /\ pc = "running"
    /\ calls = 0
    /\ config.logconfig
    /\ config.queue = <<"b", "a">>
    /\ steps[1].op = "setup_logging"
    /\ Cardinality(StepsOf({"start"})) = 2
    /\ steps[Len(steps)].op = "hooks"

\* stop_listeners is called after a plain init_app that started a listener
\* for each of two or more distinct names.
StopCalled ==
    /\ pc = "stop_enqueue"
    /\ stopIdx = 1
    /\ calls = 0
    /\ config.start
    /\ DistinctNames
    /\ Len(config.queue) >= 2

\* C18: such a stop_listeners call returns, with every listener thread
\* finished.
C18_StopTerminates ==
    StopCalled ~> (pc = "stopped" /\ \A t \in DOMAIN threads : threads[t].state = "done")

\* C19: a listener with a running consumer thread is in the registry.
C19_StartedStayRegistered ==
    \A t \in DOMAIN threads :
        threads[t].state # "done" => threads[t].listener \in Registered

(***************************************************************************)
(* Properties of the request logging (under SpecReq).                      *)
(***************************************************************************)

\* The request log records of request k.
RequestRecords(k) == {j \in DOMAIN requestLog : requestLog[j].req = k}

\* after_request has run for request k.
Finalized(k) == ~reqs[k].active \/ (serving.req = k /\ serving.phase = "finalized")

\* C13: with LOGCONFIG_REQUESTS_ENABLED a request has no request log record
\* until its response went through the after-request hook and exactly one
\* from then on, logged once the response was produced, to the configured
\* requests logger (the application's logger when none is configured), at
\* the configured level, and emitted by that logger's handlers; without it
\* there is never a record; the response leaves the hooks as it entered.
C13_OneRecordPerRequest ==
    /\ \A k \in DOMAIN reqs :
          Cardinality(RequestRecords(k))
              = IF config.requests.enabled /\ Finalized(k) THEN 1 ELSE 0
    /\ \A j \in DOMAIN requestLog :
          /\ requestLog[j].phase = "responded"
          /\ requestLog[j].logger = IF config.requests.logger = "" THEN AppLogger
                                     ELSE config.requests.logger
          /\ requestLog[j].level = config.requests.level
          /\ \A d \in DestIds :
                Count(emitted[d], requestLog[j].id)
                    = IF d \in Range(config.handlers[requestLog[j].logger]) THEN 1 ELSE 0
    /\ serving.phase = "finalized" => serving.returned = serving.status

\* A request was served to its end and logged to the application's logger.
C13_Witness ==
    /\ config.requests.enabled
    /\ config.requests.logger = ""
    /\ \E k \in DOMAIN reqs :
          /\ ~reqs[k].active
          /\ \E j \in RequestRecords(k) :
                requestLog[j].logger = AppLogger /\ requestLog[j].id \in Range(emitted[2])

\* C15: with the template "{method} {path} - {status_code}" the message of
\* the request log record of a request with method M, path P and status S
\* is "M P - S", whatever keys of those names the WSGI environ holds.
C15_MessageFromTemplate ==
    \A j \in DOMAIN requestLog :
        LET r == reqs[requestLog[j].req]
        IN requestLog[j].msg = r.method \o " " \o r.url \o " - " \o ToString(r.status)

\* GET /foo answered 404 is logged as "GET /foo - 404" although the environ
\* has keys named method and status_code.
C15_Witness ==
    /\ serving.phase = "finalized"
    /\ "method" \in DOMAIN serving.environ
    /\ \E j \in RequestRecords(serving.req) : requestLog[j].msg = "GET /foo - 404"

\* C16: every get_execution_time call of a request: without a start time it
\* returns None and leaves flask.g alone; with a stored time it returns that
\* time and leaves flask.g alone; otherwise it stores the time since the
\* start and returns it. All calls of a request that return a time return
\* the same.
C16_ComputedOnce ==
    /\ \A i \in DOMAIN timeCalls :
          LET c == timeCalls[i]
          IN /\ ~c.before.set => (c.result = NoneVal /\ c.after = c.before)
             /\ (c.before.set /\ c.before.memo) =>
                   (c.result = IntVal(c.before.execution_time) /\ c.after = c.before)
             /\ (c.before.set /\ ~c.before.memo) =>
                   /\ c.after = [c.before EXCEPT !.memo = TRUE,
                                                 !.execution_time = c.at - c.before.start]
                   /\ c.result = IntVal(c.at - c.before.start)
    /\ \A i, j \in DOMAIN timeCalls :
          (timeCalls[i].result # NoneVal /\ timeCalls[j].result # NoneVal) =>
              timeCalls[i].result = timeCalls[j].result
    /\ \A i \in DOMAIN timeCalls :
          (g.set /\ timeCalls[i].result # NoneVal) =>
              (g.memo /\ timeCalls[i].result = IntVal(g.execution_time))

\* A call before the start time was stored returned None, and two later
\* calls at different times returned the same time.
C16_Witness ==
    /\ Len(timeCalls) >= 2
    /\ \E i, j \in DOMAIN timeCalls :
          /\ i < j
          /\ timeCalls[i].at < timeCalls[j].at
          /\ timeCalls[i].result # NoneVal
          /\ timeCalls[j].result = timeCalls[i].result
          /\ timeCalls[i].result.n > 0

====
